---------------------------- MODULE Spec2Model ----------------------------
(***************************************************************************)
(* Faculty profile backend (src/backend/server.js): the Express handlers   *)
(* for /register, /login and /api/faculty, the two MongoDB collections     *)
(* (User, Faculty) and the upload directory faculty_uploadss.              *)
(*                                                                         *)
(* Every handler is an async function: it runs to its next await, and the  *)
(* other requests' steps interleave at the awaits.  Each action below is   *)
(* one such step.  The store is assumed available (its calls do not        *)
(* throw); fs.unlinkSync may throw.                                        *)
(***************************************************************************)
EXTENDS Integers, Sequences, FiniteSets, TLC

VARIABLES
    users,      \* the User collection, in insertion (natural) order
    auth,       \* per request slot: the /register or /login handler's position
    regOverlap, \* history: some register looked up while another was in flight
    faculties,  \* the Faculty collection: _id -> <<document>> or null
    nextId,     \* the next _id a new Faculty document gets
    uploadDir,  \* faculty_uploadss: the names of the files in it
    now,        \* Date.now()
    fac,        \* per request slot: the /api/faculty handler's position
    resp,       \* the response the last step sent (NoResponse: none)
    tombstones  \* history: the successful deletes, with the photo each removed

authVars == <<users, auth, regOverlap>>

facVars == <<faculties, nextId, uploadDir, now, fac, resp, tombstones>>

vars == <<users, auth, regOverlap,
          faculties, nextId, uploadDir, now, fac, resp, tombstones>>

-----------------------------------------------------------------------------
(* Bounds of the model *)

\* most User documents ever inserted
MaxUsers == 3

\* most Faculty documents ever created
MaxIds == 1

\* the last millisecond of the clock
MaxTime == 2

\* concurrent request slots
Procs == {"p1", "p2"}

Usernames == {"alice", "bob"}
Passwords == {"pw1", "pw2"}
\* the salts bcrypt may draw for one hash
Salts == {1, 2}

\* req.params.id
Ids == 1..MaxIds
\* the text fields of a request body (name, designation, ...)
Texts == {"t1"}
\* file.originalname as <<base, extension>>
OriginalNames == {<<"me", ".jpg">>, <<"me.v2", ".jpg">>}

-----------------------------------------------------------------------------
(* bcryptjs *)

\* the cost factor passed to bcrypt.hash
SaltRounds == 10

\* bcrypt.hash(password, 10) with the salt it drew: the hash string carries
\* the cost and the salt, and is one-way in the password
BcryptHash(password, salt) ==
    [cost |-> SaltRounds, salt |-> salt, digest |-> <<salt, password>>]

\* bcrypt.compare(password, hash): re-hash with the salt kept in the hash
BcryptCompare(password, hash) ==
    BcryptHash(password, hash.salt) = hash

-----------------------------------------------------------------------------
(* The User collection *)

\* what a query answers when no document matches (null)
NoDoc == <<>>

MatchingUsers(username) ==
    {i \in 1..Len(users) : users[i].username = username}

\* a lookup that filters on a field no document carries and so finds nothing
FindOneWrongField(username) ==
    IF {i \in 1..Len(users) : "userName" \in DOMAIN users[i]} = {} THEN NoDoc
    ELSE <<users[1]>>

\* User.findOne({ username }): the first matching document in natural order
\* as <<document>>, or null
FindOne(username) ==
    IF MatchingUsers(username) = {} THEN NoDoc
    ELSE <<users[CHOOSE i \in MatchingUsers(username) :
                     \A j \in MatchingUsers(username) : i <= j]>>

\* number of User documents carrying the username
CountUser(us, username) ==
    Cardinality({i \in 1..Len(us) : us[i].username = username})

-----------------------------------------------------------------------------
(* The upload directory and multer *)

\* req.file when the request carries no photo
NoFile == <<>>

\* the photo field of a document created without a file: ""
NoPhoto == <<>>

\* path.extname(file.originalname)
ExtName(originalname) == originalname[2]

\* the names multer can generate
FileNames == {<<t, ExtName(o)>> : t \in 1..MaxTime, o \in OriginalNames}

\* multer's filename callback: Date.now() + path.extname(file.originalname)
GenFilename(originalname) == <<now, ExtName(originalname)>>

\* the photo field: `/faculty_uploadss/${req.file.filename}`
PhotoUrl(filename) == <<"/faculty_uploadss", filename>>

\* path.join(__dirname, photo): the file of uploadDir the photo field names
DiskPath(photo) == photo[2]

\* fs.existsSync
ExistsSync(dir, file) == file \in dir

\* a removal of the stale photo that forgets the file
RemoveStaleForgets(dir, photo) ==
    {[dir |-> dir, threw |-> FALSE]}

\* if (photo) { if (fs.existsSync(oldPath)) fs.unlinkSync(oldPath); }: the
\* directory afterwards, and whether unlinkSync threw
RemoveStale(dir, photo) ==
    IF photo = NoPhoto \/ ~ExistsSync(dir, DiskPath(photo))
    THEN {[dir |-> dir, threw |-> FALSE]}
    ELSE {[dir |-> dir \ {DiskPath(photo)}, threw |-> FALSE],
          [dir |-> dir, threw |-> TRUE]}

-----------------------------------------------------------------------------
(* The Faculty collection *)

\* Faculty.findById(id): <<document>> or null
FindById(id) == faculties[id]

\* GET /api/faculty/:id
GetById(id) ==
    IF FindById(id) = NoDoc
    THEN [status |-> 404, success |-> FALSE, faculty |-> NoDoc]
    ELSE [status |-> 200, success |-> TRUE, faculty |-> FindById(id)]

\* GET /api/faculty: Faculty.find({}, "name designation department photo")
List ==
    {[id |-> id, name |-> faculties[id][1].name, photo |-> faculties[id][1].photo] :
        id \in {i \in Ids : faculties[i] # NoDoc}}

\* an update that writes photo: "" when the request carries no file
UpdatedDataBlanksPhoto(name, file) ==
    IF file = NoFile THEN [name |-> name, photo |-> NoPhoto]
    ELSE [name |-> name, photo |-> PhotoUrl(file[1])]

\* updatedData of PUT /api/faculty/:id: the text fields always, photo only
\* with a file
UpdatedData(name, file) ==
    IF file = NoFile THEN [name |-> name]
    ELSE [name |-> name, photo |-> PhotoUrl(file[1])]

\* the document after $set of updatedData
ApplyUpdate(doc, data) ==
    [name |-> data.name,
     photo |-> IF "photo" \in DOMAIN data THEN data.photo ELSE doc.photo]

-----------------------------------------------------------------------------
(* Request slots of the faculty handlers *)

FacIdle ==
    [pc |-> "idle", op |-> "none", id |-> 0, file |-> NoFile,
     faculty |-> NoDoc, touched |-> FALSE]

NoResponse ==
    [op |-> "none", file |-> NoFile, status |-> 0, success |-> FALSE,
     faculty |-> NoDoc, threw |-> FALSE, touched |-> FALSE]

FacInit ==
    /\ faculties = [id \in Ids |-> NoDoc]
    /\ nextId = 1
    /\ uploadDir = {}
    /\ now = 1
    /\ fac = [p \in Procs |-> FacIdle]
    /\ resp = NoResponse
    /\ tombstones = {}

\* the response of slot p's request
Respond(p, status, success, faculty, threw, touched) ==
    [op |-> fac[p].op, file |-> fac[p].file, status |-> status,
     success |-> success, faculty |-> faculty, threw |-> threw,
     touched |-> touched]

\* the clock advances
Tick ==
    /\ now < MaxTime
    /\ now' = now + 1
    /\ resp' = NoResponse
    /\ UNCHANGED <<faculties, nextId, uploadDir, fac, tombstones>>
    /\ UNCHANGED authVars

\* upload.single("photo") in front of a handler: with a file, multer streams
\* it to uploadDir under the generated name, replacing a file of that name.
\* (A tombstone stops naming a file once a new upload takes the name.)
Multer(upload) ==
    IF upload = NoFile
    THEN UNCHANGED <<uploadDir, tombstones>>
    ELSE /\ uploadDir' = uploadDir \cup {GenFilename(upload[1])}
         /\ tombstones' =
              {IF t.photo = PhotoUrl(GenFilename(upload[1]))
               THEN [t EXCEPT !.photo = NoPhoto] ELSE t : t \in tombstones}

\* req.file.filename
ReqFile(upload) ==
    IF upload = NoFile THEN NoFile ELSE <<GenFilename(upload[1])>>

\* what a request may carry in its photo field
Uploads == {NoFile} \cup {<<o>> : o \in OriginalNames}

\* POST /api/faculty: multer, then the handler up to newFaculty.save()
CreateStart(p, upload) ==
    /\ fac[p].pc = "idle"
    /\ nextId + Cardinality({q \in Procs : fac[q].pc = "create_save"}) <= MaxIds
    /\ Multer(upload)
    /\ fac' = [fac EXCEPT ![p] =
                 [FacIdle EXCEPT !.pc = "create_save", !.op = "create",
                                 !.file = ReqFile(upload),
                                 !.touched = (uploadDir' # uploadDir)]]
    /\ resp' = NoResponse
    /\ UNCHANGED <<faculties, nextId, now>>
    /\ UNCHANGED authVars

\* POST /api/faculty: save() and the response
CreateSave(p, name) ==
    /\ fac[p].pc = "create_save"
    /\ faculties' = [faculties EXCEPT ![nextId] =
          <<[name |-> name,
             photo |-> IF fac[p].file # NoFile THEN PhotoUrl(fac[p].file[1])
                       ELSE NoPhoto]>>]
    /\ nextId' = nextId + 1
    /\ resp' = Respond(p, 200, TRUE, NoDoc, FALSE, TRUE)
    /\ fac' = [fac EXCEPT ![p] = FacIdle]
    /\ UNCHANGED <<uploadDir, now, tombstones>>
    /\ UNCHANGED authVars

\* PUT /api/faculty/:id: multer, then the handler up to findById
UpdateStart(p, id, upload) ==
    /\ fac[p].pc = "idle"
    /\ Multer(upload)
    /\ fac' = [fac EXCEPT ![p] =
                 [FacIdle EXCEPT !.pc = "update_find", !.op = "update", !.id = id,
                                 !.file = ReqFile(upload),
                                 !.touched = (uploadDir' # uploadDir)]]
    /\ resp' = NoResponse
    /\ UNCHANGED <<faculties, nextId, now>>
    /\ UNCHANGED authVars

\* PUT /api/faculty/:id: findById and the 404
UpdateFind(p) ==
    /\ fac[p].pc = "update_find"
    /\ IF FindById(fac[p].id) = NoDoc
       THEN /\ resp' = Respond(p, 404, FALSE, NoDoc, FALSE, fac[p].touched)
            /\ fac' = [fac EXCEPT ![p] = FacIdle]
       ELSE /\ resp' = NoResponse
            /\ fac' = [fac EXCEPT ![p] =
                  [fac[p] EXCEPT !.pc = "update_unlink",
                                 !.faculty = FindById(fac[p].id)]]
    /\ UNCHANGED <<faculties, nextId, uploadDir, now, tombstones>>
    /\ UNCHANGED authVars

\* PUT /api/faculty/:id from updatedData to findByIdAndUpdate: with a file,
\* the old photo is removed; unlinkSync throwing ends in the catch's 500
UpdateUnlink(p) ==
    /\ fac[p].pc = "update_unlink"
    /\ \E out \in (IF fac[p].file = NoFile
                   THEN {[dir |-> uploadDir, threw |-> FALSE]}
                   ELSE RemoveStale(uploadDir, fac[p].faculty[1].photo)) :
         /\ uploadDir' = out.dir
         /\ IF out.threw
            THEN /\ resp' = Respond(p, 500, FALSE, NoDoc, TRUE, fac[p].touched)
                 /\ fac' = [fac EXCEPT ![p] = FacIdle]
            ELSE /\ resp' = NoResponse
                 /\ fac' = [fac EXCEPT ![p] =
                       [fac[p] EXCEPT !.pc = "update_write",
                            !.touched = fac[p].touched \/ out.dir # uploadDir]]
    /\ UNCHANGED <<faculties, nextId, now, tombstones>>
    /\ UNCHANGED authVars

\* PUT /api/faculty/:id: findByIdAndUpdate(id, updatedData, { new: true })
\* and the response, which carries what the call answered
UpdateWrite(p, name) ==
    /\ fac[p].pc = "update_write"
    /\ LET id   == fac[p].id
           data == UpdatedData(name, fac[p].file)
           new  == IF faculties[id] = NoDoc THEN NoDoc
                   ELSE <<ApplyUpdate(faculties[id][1], data)>>
       IN  /\ faculties' = [faculties EXCEPT ![id] = new]
           /\ resp' = Respond(p, 200, TRUE, new, FALSE,
                              fac[p].touched \/ new # faculties[id])
    /\ fac' = [fac EXCEPT ![p] = FacIdle]
    /\ UNCHANGED <<nextId, uploadDir, now, tombstones>>
    /\ UNCHANGED authVars

\* DELETE /api/faculty/:id: findByIdAndDelete and the 404
DeleteRemove(p, id) ==
    /\ fac[p].pc = "idle"
    /\ faculties' = [faculties EXCEPT ![id] = NoDoc]
    /\ IF FindById(id) = NoDoc
       THEN /\ resp' = [NoResponse EXCEPT !.op = "delete", !.status = 404]
            /\ fac' = fac
       ELSE /\ resp' = NoResponse
            /\ fac' = [fac EXCEPT ![p] =
                  [FacIdle EXCEPT !.pc = "delete_unlink", !.op = "delete",
                                  !.id = id, !.faculty = FindById(id),
                                  !.touched = TRUE]]
    /\ UNCHANGED <<nextId, uploadDir, now, tombstones>>
    /\ UNCHANGED authVars

\* DELETE /api/faculty/:id: the deleted document's photo is removed, then the
\* response; unlinkSync throwing ends in the catch's 500
DeleteUnlink(p) ==
    /\ fac[p].pc = "delete_unlink"
    /\ \E out \in RemoveStale(uploadDir, fac[p].faculty[1].photo) :
         /\ uploadDir' = out.dir
         /\ resp' = IF out.threw THEN Respond(p, 500, FALSE, NoDoc, TRUE, TRUE)
                    ELSE Respond(p, 200, TRUE, NoDoc, FALSE, TRUE)
         /\ tombstones' =
              IF out.threw THEN tombstones
              ELSE tombstones \cup {[id |-> fac[p].id,
                                     photo |-> fac[p].faculty[1].photo]}
    /\ fac' = [fac EXCEPT ![p] = FacIdle]
    /\ UNCHANGED <<faculties, nextId, now>>
    /\ UNCHANGED authVars

FacNext ==
    \/ Tick
    \/ \E p \in Procs :
         \/ \E up \in Uploads : CreateStart(p, up)
         \/ \E t \in Texts : CreateSave(p, t)
         \/ \E id \in Ids, up \in Uploads : UpdateStart(p, id, up)
         \/ UpdateFind(p)
         \/ UpdateUnlink(p)
         \/ \E t \in Texts : UpdateWrite(p, t)
         \/ \E id \in Ids : DeleteRemove(p, id)
         \/ DeleteUnlink(p)

-----------------------------------------------------------------------------
(* Request slots of the auth handlers *)

AuthIdle ==
    [pc |-> "idle", op |-> "none", username |-> "", password |-> "",
     status |-> 0, message |-> <<>>, body |-> "", raced |-> FALSE]

\* a register request between its lookup and its insert
RegPending(p) == auth[p].pc = "hash_save"

Init ==
    /\ users = <<>>
    /\ auth = [p \in Procs |-> AuthIdle]
    /\ regOverlap = FALSE
    /\ FacInit

\* POST /register up to the first await's result: findOne, and the 400
RegisterLookup(p, username, password) ==
    /\ auth[p].pc = "idle"
    /\ Len(users) + Cardinality({q \in Procs : RegPending(q)}) < MaxUsers
    /\ regOverlap' = (regOverlap \/ \E q \in Procs \ {p} : RegPending(q))
    /\ IF FindOne(username) # NoDoc
       THEN auth' = [auth EXCEPT ![p] =
                [AuthIdle EXCEPT !.pc = "done", !.op = "register",
                                 !.username = username, !.password = password,
                                 !.status = 400,
                                 !.message = <<"Username already exists">>]]
       ELSE auth' = [auth EXCEPT ![p] =
                [AuthIdle EXCEPT !.pc = "hash_save", !.op = "register",
                                 !.username = username, !.password = password]]
    /\ UNCHANGED users
    /\ UNCHANGED facVars

\* an insert that enforces a unique username: the second of two racing
\* registers is refused
RegisterSaveUnique(p) ==
    /\ RegPending(p)
    /\ IF MatchingUsers(auth[p].username) # {}
       THEN /\ users' = users
            /\ auth' = [auth EXCEPT ![p] =
                   [auth[p] EXCEPT !.pc = "done", !.status = 400, !.raced = TRUE,
                                   !.message = <<"Username already exists">>]]
       ELSE /\ \E salt \in Salts :
                 users' = Append(users, [username |-> auth[p].username,
                                 password |-> BcryptHash(auth[p].password, salt)])
            /\ auth' = [q \in Procs |->
                  IF q = p
                  THEN [auth[p] EXCEPT !.pc = "done", !.status = 201,
                            !.message = <<"User registered successfully">>,
                            !.raced = auth[p].raced \/
                                \E r \in Procs \ {p} :
                                    RegPending(r) /\ auth[r].username = auth[p].username]
                  ELSE IF RegPending(q) /\ auth[q].username = auth[p].username
                       THEN [auth[q] EXCEPT !.raced = TRUE]
                       ELSE auth[q]]
    /\ UNCHANGED regOverlap
    /\ UNCHANGED facVars

\* POST /register from bcrypt.hash to the 201: hash, save, respond.  The
\* insert does not look the username up again.
RegisterSave(p) ==
    /\ RegPending(p)
    /\ \E salt \in Salts :
         users' = Append(users, [username |-> auth[p].username,
                                 password |-> BcryptHash(auth[p].password, salt)])
    /\ auth' = [q \in Procs |->
                  IF q = p
                  THEN [auth[p] EXCEPT !.pc = "done", !.status = 201,
                            !.message = <<"User registered successfully">>,
                            !.raced = auth[p].raced \/
                                \E r \in Procs \ {p} :
                                    RegPending(r) /\ auth[r].username = auth[p].username]
                  ELSE IF RegPending(q) /\ auth[q].username = auth[p].username
                       THEN [auth[q] EXCEPT !.raced = TRUE]
                       ELSE auth[q]]
    /\ UNCHANGED regOverlap
    /\ UNCHANGED facVars

\* POST /login: findOne, bcrypt.compare, respond.  Users are never updated
\* or removed, so the document read at the lookup decides the response.
Login(p, username, password) ==
    /\ auth[p].pc = "idle"
    /\ LET user == FindOne(username) IN
       auth' = [auth EXCEPT ![p] =
         IF user = NoDoc \/ ~BcryptCompare(password, user[1].password)
         THEN [AuthIdle EXCEPT !.pc = "done", !.op = "login",
                               !.username = username, !.password = password,
                               !.status = 400,
                               !.message = <<"Invalid username or password">>]
         ELSE [AuthIdle EXCEPT !.pc = "done", !.op = "login",
                               !.username = username, !.password = password,
                               !.status = 200,
                               !.message = <<"Welcome", user[1].username>>,
                               !.body = user[1].username]]
    /\ UNCHANGED <<users, regOverlap>>
    /\ UNCHANGED facVars

\* the response has been sent; the slot takes the next request
AuthFinish(p) ==
    /\ auth[p].pc = "done"
    /\ auth' = [auth EXCEPT ![p] = AuthIdle]
    /\ UNCHANGED <<users, regOverlap>>
    /\ UNCHANGED facVars

AuthNext ==
    \E p \in Procs :
        \/ \E u \in Usernames, pw \in Passwords : RegisterLookup(p, u, pw)
        \/ RegisterSave(p)
        \/ \E u \in Usernames, pw \in Passwords : Login(p, u, pw)
        \/ AuthFinish(p)

AuthSpec == Init /\ [][AuthNext]_vars

FacultySpec == Init /\ [][FacNext]_vars

-----------------------------------------------------------------------------
(* Claims about /register and /login *)

\* the step just taken was slot p's register lookup
IsRegisterLookup(p) ==
    auth[p].pc = "idle" /\ auth'[p].op = "register"

\* the step just taken was slot p's register insert
IsRegisterSave(p) ==
    auth[p].pc = "hash_save" /\ auth'[p].pc = "done"

\* the step just taken was slot p's login
IsLogin(p) ==
    auth[p].pc = "idle" /\ auth'[p].op = "login"

\* C1: while register requests have run one at a time, a register of a
\* username without a User record goes on to answer 201 and adds exactly one
\* record for it, a register of a username with a record answers 400
\* "Username already exists" and adds none, and no username has two records.
C1_SequentialRegisterUnique ==
    [][ ~regOverlap' =>
          /\ \A u \in Usernames : CountUser(users', u) <= 1
          /\ \A p \in Procs :
               /\ IsRegisterLookup(p) =>
                    /\ users' = users
                    /\ IF CountUser(users, auth'[p].username) = 0
                       THEN auth'[p].pc = "hash_save"
                       ELSE /\ auth'[p].pc = "done"
                            /\ auth'[p].status = 400
                            /\ auth'[p].message = <<"Username already exists">>
               /\ IsRegisterSave(p) =>
                    /\ auth'[p].status = 201
                    /\ Len(users') = Len(users) + 1
                    /\ SubSeq(users', 1, Len(users)) = users
                    /\ users'[Len(users')].username = auth[p].username
                    /\ CountUser(users', auth[p].username) = 1 ]_vars

\* C1's case: with no overlap so far, one slot holds the 201 of a username's
\* first register and the other the 400 of a later register of it.
C1_Witness ==
    /\ ~regOverlap
    /\ \E p, q \in Procs :
         /\ auth[p].pc = "done" /\ auth[p].op = "register" /\ auth[p].status = 201
         /\ auth[q].pc = "done" /\ auth[q].op = "register" /\ auth[q].status = 400
         /\ auth[q].username = auth[p].username
         /\ CountUser(users, auth[p].username) = 1

\* C2: a login answers 200 with the username echoed back exactly when some
\* User record carries the username and its hash verifies against the
\* password; every other login answers 400 "Invalid username or password".
C2_LoginExactlyWhenCredentialsMatch ==
    [][ \A p \in Procs :
          IsLogin(p) =>
            LET u  == auth'[p].username
                pw == auth'[p].password
                ok == \E i \in 1..Len(users) :
                         /\ users[i].username = u
                         /\ BcryptCompare(pw, users[i].password)
            IN  IF ok
                THEN auth'[p].status = 200 /\ auth'[p].body = u
                ELSE /\ auth'[p].status = 400
                     /\ auth'[p].message = <<"Invalid username or password">> ]_vars

\* C8: two registers of one unregistered username that both looked up before
\* either inserted both answer 201, and once both have inserted the store
\* holds two User records with that username.
C8_RegisterRaceDuplicates ==
    \A p \in Procs :
        (/\ auth[p].pc = "done" /\ auth[p].op = "register" /\ auth[p].raced
         /\ \A q \in Procs : RegPending(q) => auth[q].username # auth[p].username)
        => /\ auth[p].status = 201
           /\ CountUser(users, auth[p].username) = 2

\* C8's case: both racing registers have answered and the username is stored twice.
C8_Witness ==
    \E p, q \in Procs :
        /\ p # q
        /\ auth[p].pc = "done" /\ auth[p].op = "register" /\ auth[p].raced
        /\ auth[q].pc = "done" /\ auth[q].op = "register" /\ auth[q].raced
        /\ auth[p].username = auth[q].username
        /\ auth[p].status = 201 /\ auth[q].status = 201
        /\ CountUser(users, auth[p].username) = 2

-----------------------------------------------------------------------------
(* Claims about /api/faculty *)

\* the step just taken was slot p's findByIdAndUpdate and response
IsUpdateWrite(p) ==
    fac[p].pc = "update_write" /\ fac'[p].pc = "idle"

\* the step just taken was a step of slot p's update request without a file
IsFilelessUpdateStep(p) ==
    /\ fac'[p] # fac[p]
    /\ \/ fac[p].op = "update" /\ fac[p].file = NoFile
       \/ fac[p].pc = "idle" /\ fac'[p].op = "update" /\ fac'[p].file = NoFile

\* C3: once a delete of an existing id has answered success, getById of the
\* id answers 404, no list entry carries the id, and the photo file the
\* deleted record named is not in the upload directory (a file of that name
\* is there again only when a later upload was given the name).
C3_DeleteRemovesRecordAndPhoto ==
    \A t \in tombstones :
        /\ GetById(t.id).status = 404
        /\ \A r \in List : r.id # t.id
        /\ t.photo # NoPhoto => ~ExistsSync(uploadDir, DiskPath(t.photo))

\* C3's case: the last step answered a delete with success, and the deleted
\* record had a photo.
C3_Witness ==
    /\ resp.op = "delete" /\ resp.success
    /\ \E t \in tombstones : t.photo # NoPhoto

\* C4: when an update with a new photo file answers, the file the record
\* named before is not in the upload directory, and getById and list give
\* the record with photo equal to the new file's path.
C4_UpdateReplacesPhoto ==
    [][ \A p \in Procs :
          (IsUpdateWrite(p) /\ fac[p].file # NoFile) =>
            LET id  == fac[p].id
                old == fac[p].faculty[1].photo
                new == PhotoUrl(fac[p].file[1])
            IN  /\ old # NoPhoto => ~ExistsSync(uploadDir', DiskPath(old))
                /\ faculties'[id] # NoDoc
                /\ faculties'[id][1].photo = new ]_vars

\* C5: every stored record's photo is "" or /faculty_uploadss/<generated
\* name> naming a file that is in the upload directory.
C5_PhotoFileExists ==
    \A id \in Ids :
        faculties[id] # NoDoc =>
            LET photo == faculties[id][1].photo
            IN  \/ photo = NoPhoto
                \/ /\ photo[1] = "/faculty_uploadss"
                   /\ photo[2] \in FileNames
                   /\ ExistsSync(uploadDir, DiskPath(photo))

\* C6: no step of an update request without a photo file changes the upload
\* directory or the photo field of the record it addresses.
C6_UpdateWithoutFileKeepsPhoto ==
    [][ \A p \in Procs :
          IsFilelessUpdateStep(p) =>
            LET id == IF fac[p].op = "update" THEN fac[p].id ELSE fac'[p].id
            IN  /\ uploadDir' = uploadDir
                /\ faculties[id] # NoDoc =>
                     /\ faculties'[id] # NoDoc
                     /\ faculties'[id][1].photo = faculties[id][1].photo ]_vars

\* C6's case: an update without a file has just answered success for a
\* record that has a photo.
C6_Witness ==
    /\ resp.op = "update" /\ resp.file = NoFile /\ resp.success
    /\ resp.faculty # NoDoc
    /\ resp.faculty[1].photo # NoPhoto

\* C7: an update with a file or a delete whose removal of the stale photo
\* failed answers with the success response.
C7_UnlinkFailureAnswersSuccess ==
    resp.threw => (resp.status = 200 /\ resp.success)

\* C9: an update answered with 404 has changed neither the Faculty
\* collection nor the upload directory.
C9_NotFoundUpdateChangesNothing ==
    (resp.op = "update" /\ resp.status = 404) => ~resp.touched

\* C10: an update that finds no record at its write answers 404, and every
\* success response of an update carries the record as stored (never null).
C10_UpdateSuccessCarriesRecord ==
    [][ \A p \in Procs :
          IsUpdateWrite(p) =>
            /\ faculties[fac[p].id] = NoDoc => resp'.status = 404
            /\ resp'.success =>
                 /\ resp'.faculty # NoDoc
                 /\ resp'.faculty = faculties'[fac[p].id] ]_vars

=============================================================================
